---- MODULE Spec2Model ----
(***************************************************************************)
(* A model of venvmanager: the subprocess runner with its two stream       *)
(* reader threads (venvmngr/utils.py), the environment manager that drives *)
(* pip and the package index (envmanager/__init__.py, envmanager/_pypi.py) *)
(* and the environment factory.                                            *)
(*                                                                         *)
(* Python strings are sequences of one-character strings, so that          *)
(* concatenation, quoting, lower() and indexing are computed, not assumed. *)
(* Python's None is the value None below.                                  *)
(***************************************************************************)
EXTENDS Integers, Sequences, FiniteSets, TLC

VARIABLES
  \* ---- run_subprocess_with_streams ----
  args,        \* argv handed to Popen
  callback,    \* [Streams -> BOOLEAN]: is a callback given for the stream
  prog,        \* what the child still has to do, in order
  exitcode,    \* the code the child exits with once prog is empty
  child,       \* "none" | "running" | "exited"
  wopen,       \* [Streams -> BOOLEAN]: the child's end of the pipe is open
  pipe,        \* [Streams -> Seq(line)]: lines in the OS pipe, not yet read
  emitted,     \* [Streams -> Seq(line)]: every line the child wrote (history)
  lineno,      \* number of lines the child wrote so far
  rpc,         \* [Streams -> thread position of read_stream]
  hand,        \* [Streams -> line readline just returned]
  sink,        \* [Streams -> Seq(line)]: lines passed to the callback
  mpc,         \* position of the calling thread
  returncode,  \* process.returncode
  error,       \* the raised error
  \* ---- EnvManager ----
  installed,   \* the environment: what pip list reports, in its order
  last,        \* the call that just completed, with its result
  prev,        \* the call before it
  \* ---- filesystem, for EnvManager() and the factory ----
  host,        \* platform.system()
  files,       \* paths that are regular files
  dirs,        \* paths that are directories
  flast,       \* the factory call that just completed, with its result
  fprev        \* the factory call before it

rvars == <<args, callback, prog, exitcode, child, wopen, pipe, emitted, lineno,
           rpc, hand, sink, mpc, returncode, error>>
evars == <<installed, last, prev>>
fvars == <<host, files, dirs, flast, fprev>>
vars == <<rvars, evars, fvars>>

\* Python's None
None ==
  <<"<None>">>

----------------------------------------------------------------------------
(* run_subprocess_with_streams                                              *)

MaxProg == 3
PipeCap == 1

Streams ==
  {"stdout", "stderr"}

\* What a child does with its two streams: write one line, or close one.
ChildOps ==
  {"w_stdout", "w_stderr", "c_stdout", "c_stderr"}

OpStream(op) ==
  IF op \in {"w_stdout", "c_stdout"} THEN "stdout" ELSE "stderr"

IsWrite(op) ==
  op \in {"w_stdout", "w_stderr"}

SeqsUpTo(S, n) ==
  UNION {[1..k -> S] : k \in 0..n}

\* A child never writes to a stream it has closed, and closes a stream once.
WellFormed(p) ==
  \A i \in 1..Len(p) : ~IsWrite(p[i]) =>
     \A j \in (i+1)..Len(p) : OpStream(p[j]) # OpStream(p[i])

Programs ==
  {p \in SeqsUpTo(ChildOps, MaxProg) : WellFormed(p)}

ExitCodes ==
  {0, 1, 2}

Argvs ==
  {<<"pip", "list">>, <<"python">>}

NoError ==
  [raised |-> FALSE, type |-> "", message |-> <<>>, cause_returncode |-> 0,
   cause_cmd |-> <<>>]

RunnerIdle ==
  /\ args = <<>>
  /\ callback = [s \in Streams |-> FALSE]
  /\ prog = <<>>
  /\ exitcode = 0
  /\ child = "none"
  /\ wopen = [s \in Streams |-> FALSE]
  /\ pipe = [s \in Streams |-> <<>>]
  /\ emitted = [s \in Streams |-> <<>>]
  /\ lineno = 0
  /\ rpc = [s \in Streams |-> "unstarted"]
  /\ hand = [s \in Streams |-> 0]
  /\ sink = [s \in Streams |-> <<>>]
  /\ mpc = "idle"
  /\ returncode = -1
  /\ error = NoError

\* The call: the arguments, and the child the command turns out to be.
RunnerInit ==
  /\ args \in Argvs
  /\ callback \in [Streams -> BOOLEAN]
  /\ prog \in Programs
  /\ exitcode \in ExitCodes
  /\ child = "none"
  /\ wopen = [s \in Streams |-> FALSE]
  /\ pipe = [s \in Streams |-> <<>>]
  /\ emitted = [s \in Streams |-> <<>>]
  /\ lineno = 0
  /\ rpc = [s \in Streams |-> "unstarted"]
  /\ hand = [s \in Streams |-> 0]
  /\ sink = [s \in Streams |-> <<>>]
  /\ mpc = "popen"
  /\ returncode = -1
  /\ error = NoError

\* subprocess.Popen(args, stdout=PIPE, stderr=PIPE, text=True)
Popen ==
  /\ mpc = "popen"
  /\ child' = "running"
  /\ wopen' = [s \in Streams |-> TRUE]
  /\ mpc' = "start_stdout"
  /\ UNCHANGED <<evars, fvars, args, callback, prog, exitcode, pipe, emitted, lineno, rpc,
                 hand, sink, returncode, error>>

\* The child writes its next line; the write blocks while the pipe is full.
ChildWrite ==
  /\ child = "running"
  /\ prog # <<>>
  /\ IsWrite(Head(prog))
  /\ LET s == OpStream(Head(prog)) IN
       /\ Len(pipe[s]) < PipeCap
       /\ pipe' = [pipe EXCEPT ![s] = Append(@, lineno + 1)]
       /\ emitted' = [emitted EXCEPT ![s] = Append(@, lineno + 1)]
  /\ lineno' = lineno + 1
  /\ prog' = Tail(prog)
  /\ UNCHANGED <<evars, fvars, args, callback, exitcode, child, wopen, rpc, hand, sink, mpc,
                 returncode, error>>

\* The child closes one of its streams before it exits.
ChildClose ==
  /\ child = "running"
  /\ prog # <<>>
  /\ ~IsWrite(Head(prog))
  /\ wopen' = [wopen EXCEPT ![OpStream(Head(prog))] = FALSE]
  /\ prog' = Tail(prog)
  /\ UNCHANGED <<evars, fvars, args, callback, exitcode, child, pipe, emitted, lineno, rpc,
                 hand, sink, mpc, returncode, error>>

\* The child exits; the kernel closes whatever it still had open.
ChildExit ==
  /\ child = "running"
  /\ prog = <<>>
  /\ child' = "exited"
  /\ wopen' = [s \in Streams |-> FALSE]
  /\ UNCHANGED <<evars, fvars, args, callback, prog, exitcode, pipe, emitted, lineno, rpc,
                 hand, sink, mpc, returncode, error>>

\* stdout_thread.start()
StartStdout ==
  /\ mpc = "start_stdout"
  /\ rpc' = [rpc EXCEPT !["stdout"] = "readline"]
  /\ mpc' = "start_stderr"
  /\ UNCHANGED <<evars, fvars, args, callback, prog, exitcode, child, wopen, pipe, emitted,
                 lineno, hand, sink, returncode, error>>

\* stderr_thread.start()
StartStderr ==
  /\ mpc = "start_stderr"
  /\ rpc' = [rpc EXCEPT !["stderr"] = "readline"]
  /\ mpc' = "join_stdout"
  /\ UNCHANGED <<evars, fvars, args, callback, prog, exitcode, child, wopen, pipe, emitted,
                 lineno, hand, sink, returncode, error>>

\* May the reader of stream s take its next step now?  Each reader is a
\* thread of its own, so: whenever it has been started.
ReaderMayRunSequential(s) ==
  s = "stderr" => rpc["stdout"] = "done"

ReaderMayRun(s) ==
  TRUE

\* stream.readline() returns a line
ReadLine(s) ==
  /\ rpc[s] = "readline"
  /\ ReaderMayRun(s)
  /\ pipe[s] # <<>>
  /\ hand' = [hand EXCEPT ![s] = Head(pipe[s])]
  /\ pipe' = [pipe EXCEPT ![s] = Tail(@)]
  /\ rpc' = [rpc EXCEPT ![s] = "callback"]
  /\ UNCHANGED <<evars, fvars, args, callback, prog, exitcode, child, wopen, emitted,
                 lineno, sink, mpc, returncode, error>>

\* What the loop body does with a line: if callback: callback(line)
Forward(s, line, snk) ==
  IF callback[s] THEN [snk EXCEPT ![s] = Append(@, line)] ELSE snk

Callback(s) ==
  /\ rpc[s] = "callback"
  /\ ReaderMayRun(s)
  /\ sink' = Forward(s, hand[s], sink)
  /\ rpc' = [rpc EXCEPT ![s] = "readline"]
  /\ UNCHANGED <<evars, fvars, args, callback, prog, exitcode, child, wopen, pipe, emitted,
                 lineno, hand, mpc, returncode, error>>

\* stream.readline() returns "": the pipe is empty and nobody can write to
\* it any more.  The loop ends, stream.close(), the thread is over.
ReadEOF(s) ==
  /\ rpc[s] = "readline"
  /\ ReaderMayRun(s)
  /\ pipe[s] = <<>>
  /\ ~wopen[s]
  /\ rpc' = [rpc EXCEPT ![s] = "done"]
  /\ UNCHANGED <<evars, fvars, args, callback, prog, exitcode, child, wopen, pipe, emitted,
                 lineno, hand, sink, mpc, returncode, error>>

\* thread.join() returns once the thread's read_stream has ended.
JoinedWithoutWaiting(s) ==
  rpc[s] # "unstarted"

Joined(s) ==
  rpc[s] = "done"

\* stdout_thread.join()
JoinStdout ==
  /\ mpc = "join_stdout"
  /\ Joined("stdout")
  /\ mpc' = "join_stderr"
  /\ UNCHANGED <<evars, fvars, args, callback, prog, exitcode, child, wopen, pipe, emitted,
                 lineno, rpc, hand, sink, returncode, error>>

\* stderr_thread.join()
JoinStderr ==
  /\ mpc = "join_stderr"
  /\ Joined("stderr")
  /\ mpc' = "wait"
  /\ UNCHANGED <<evars, fvars, args, callback, prog, exitcode, child, wopen, pipe, emitted,
                 lineno, rpc, hand, sink, returncode, error>>

\* process.wait() returns once the child has exited, and sets returncode.
Wait ==
  /\ mpc = "wait"
  /\ child = "exited"
  /\ returncode' = exitcode
  /\ mpc' = "check"
  /\ UNCHANGED <<evars, fvars, args, callback, prog, exitcode, child, wopen, pipe, emitted,
                 lineno, rpc, hand, sink, error>>

\* raise ValueError(f"Failed to call {' '.join(args)}")
\*   from subprocess.CalledProcessError(process.returncode, process.args)
CalledProcessErrorFrom(rc, argv) ==
  [raised |-> TRUE, type |-> "ValueError", message |-> argv,
   cause_returncode |-> rc, cause_cmd |-> argv]

\* if process.returncode != 0: raise ...
Check ==
  /\ mpc = "check"
  /\ IF returncode # 0
       THEN /\ error' = CalledProcessErrorFrom(returncode, args)
            /\ mpc' = "raised"
       ELSE /\ error' = error
            /\ mpc' = "returned"
  /\ UNCHANGED <<evars, fvars, args, callback, prog, exitcode, child, wopen, pipe, emitted,
                 lineno, rpc, hand, sink, returncode>>

RunnerNext ==
  \/ Popen
  \/ ChildWrite
  \/ ChildClose
  \/ ChildExit
  \/ StartStdout
  \/ StartStderr
  \/ \E s \in Streams : ReadLine(s)
  \/ \E s \in Streams : Callback(s)
  \/ \E s \in Streams : ReadEOF(s)
  \/ JoinStdout
  \/ JoinStderr
  \/ Wait
  \/ Check

----------------------------------------------------------------------------
(* Python strings                                                           *)

UpperCase ==
  <<"A","B","C","D","E","F","G","H","I","J","K","L","M",
    "N","O","P","Q","R","S","T","U","V","W","X","Y","Z">>

LowerCase ==
  <<"a","b","c","d","e","f","g","h","i","j","k","l","m",
    "n","o","p","q","r","s","t","u","v","w","x","y","z">>

Digits ==
  <<"0","1","2","3","4","5","6","7","8","9">>

Range(f) ==
  {f[i] : i \in DOMAIN f}

\* str.lower(), one character
lower_char(c) ==
  IF c \in Range(UpperCase)
    THEN LowerCase[CHOOSE i \in 1..26 : UpperCase[i] = c]
    ELSE c

\* str.lower()
lower(str) ==
  [i \in 1..Len(str) |-> lower_char(str[i])]

\* The literal words of the command lines
S_m ==
  <<"-","m">>

S_pip ==
  <<"p","i","p">>

S_install ==
  <<"i","n","s","t","a","l","l">>

S_upgrade ==
  <<"-","-","u","p","g","r","a","d","e">>

S_list ==
  <<"l","i","s","t">>

S_format_json ==
  <<"-","-","f","o","r","m","a","t","=","j","s","o","n">>

S_uninstall ==
  <<"u","n","i","n","s","t","a","l","l">>

S_y ==
  <<"-","y">>

\* self.python_exe of the EnvManager whose packages are managed
PythonExe ==
  <<"env", "bin", "python">>

----------------------------------------------------------------------------
(* The package manager (pip) and the package index, as the environment     *)
(* manager sees them: command line in, exit code and environment out.      *)

\* The projects the index offers, in pip list's order (by name, ignoring
\* case), each under the name its metadata gives and with its releases.
Projects ==
  << [name |-> <<"a","b">>, versions |-> {<<"1">>}],
     [name |-> <<"D","u">>, versions |-> {<<"1">>, <<"2">>}] >>

\* A release number as an integer (releases are single numbers here)
VerNum(v) ==
  (CHOOSE i \in 1..10 : Digits[i] = v[1]) - 1

IsVersion(v) ==
  /\ Len(v) = 1
  /\ v[1] \in Range(Digits)

NameChars ==
  Range(UpperCase) \cup Range(LowerCase) \cup Range(Digits) \cup {"_", "-", "."}

\* Length of the longest prefix of str made of name characters
NamePrefixLen(str) ==
  CHOOSE k \in 0..Len(str) :
    /\ \A i \in 1..k : str[i] \in NameChars
    /\ k = Len(str) \/ str[k+1] \notin NameChars

\* The comparison operator a requirement's rest starts with, or nothing
OperatorOf(rest) ==
  IF Len(rest) >= 2 /\ SubSeq(rest, 1, 2) \in {<<"=","=">>, <<">","=">>, <<"<","=">>}
    THEN SubSeq(rest, 1, 2)
  ELSE IF rest # <<>> /\ rest[1] \in {"<", ">"} THEN <<rest[1]>>
  ELSE <<>>

ReqOf(name, rest, op) ==
  [valid |-> /\ name # <<>>
             /\ rest = <<>> \/ (op # <<>> /\ IsVersion(SubSeq(rest, Len(op) + 1, Len(rest)))),
   name |-> name, op |-> op,
   version |-> SubSeq(rest, Len(op) + 1, Len(rest))]

SplitReq(arg, k) ==
  ReqOf(SubSeq(arg, 1, k), SubSeq(arg, k + 1, Len(arg)),
        OperatorOf(SubSeq(arg, k + 1, Len(arg))))

\* pip's reading of a requirement: name, then nothing or operator and version
ParseReq(arg) ==
  SplitReq(arg, NamePrefixLen(arg))

Satisfies(v, req) ==
  CASE req.op = <<>> -> TRUE
    [] req.op = <<"=","=">> -> VerNum(v) = VerNum(req.version)
    [] req.op = <<">","=">> -> VerNum(v) >= VerNum(req.version)
    [] req.op = <<"<","=">> -> VerNum(v) <= VerNum(req.version)
    [] req.op = <<">">> -> VerNum(v) > VerNum(req.version)
    [] req.op = <<"<">> -> VerNum(v) < VerNum(req.version)

\* The index's project a name refers to (0: none); names match ignoring case
ProjectOf(name) ==
  IF \E i \in 1..Len(Projects) : lower(Projects[i].name) = lower(name)
    THEN CHOOSE i \in 1..Len(Projects) : lower(Projects[i].name) = lower(name)
    ELSE 0

\* The installed version of project i in environment env, or None
InstalledVersion(env, i) ==
  IF \E j \in 1..Len(env) : env[j].name = Projects[i].name
    THEN env[CHOOSE j \in 1..Len(env) : env[j].name = Projects[i].name].version
    ELSE None

\* The environment env with project i at version v (None: not installed)
WithVersion(env, i, v) ==
  LET all == [k \in 1..Len(Projects) |->
                [name |-> Projects[k].name,
                 version |-> IF k = i THEN v ELSE InstalledVersion(env, k)]]
      present(e) == e.version # None
  IN  SelectSeq(all, present)

MaxVersion(vs) ==
  CHOOSE v \in vs : \A w \in vs : VerNum(w) <= VerNum(v)

\* pip install of requirement req, which names project i of the index
InstallProject(env, req, i, upgrade) ==
  IF InstalledVersion(env, i) # None /\ Satisfies(InstalledVersion(env, i), req)
       /\ ~upgrade
    THEN [exit |-> 0, env |-> env]
  ELSE IF \A v \in Projects[i].versions : ~Satisfies(v, req)
    THEN [exit |-> 1, env |-> env]
  ELSE [exit |-> 0,
        env |-> WithVersion(env, i,
                  MaxVersion({v \in Projects[i].versions : Satisfies(v, req)}))]

InstallReq(env, req, upgrade) ==
  IF ~req.valid \/ ProjectOf(req.name) = 0 THEN [exit |-> 1, env |-> env]
  ELSE InstallProject(env, req, ProjectOf(req.name), upgrade)

\* python -m pip install <arg> [--upgrade]: an argument that is no
\* requirement, a project the index does not have and a version it does not
\* offer are errors; a requirement already satisfied is left alone unless
\* --upgrade is given; otherwise the highest version allowed is installed.
PipInstall(env, arg, upgrade) ==
  InstallReq(env, ParseReq(arg), upgrade)

UninstallReq(env, req) ==
  IF ~req.valid \/ req.op # <<>> THEN [exit |-> 1, env |-> env]
  ELSE IF ProjectOf(req.name) = 0 THEN [exit |-> 0, env |-> env]
  ELSE [exit |-> 0, env |-> WithVersion(env, ProjectOf(req.name), None)]

\* python -m pip uninstall -y <name>: a name that is not installed is
\* skipped with a warning
PipUninstall(env, name) ==
  UninstallReq(env, ParseReq(name))

\* The command line pip was started with decides what it does.
RunPip(env, cmd) ==
  IF Len(cmd) >= 5 /\ SubSeq(cmd, 2, 4) = <<S_m, S_pip, S_install>>
    THEN PipInstall(env, cmd[5], Len(cmd) >= 6 /\ cmd[6] = S_upgrade)
  ELSE IF Len(cmd) = 6 /\ SubSeq(cmd, 2, 5) = <<S_m, S_pip, S_uninstall, S_y>>
    THEN PipUninstall(env, cmd[6])
  ELSE [exit |-> 2, env |-> env]

----------------------------------------------------------------------------
(* EnvManager                                                               *)

\* Optional[PackageListEntry]: Python's None where an entry is expected
NoneEntry ==
  [name |-> None, version |-> None]

\* What a call gives back: the exception it raised ("" when it returned)
\* and the value it returned.
Returned(value) ==
  [raised |-> "", message |-> "", ret |-> value]

Raised(type, message) ==
  [raised |-> type, message |-> message, ret |-> None]

\* install_package, the command line it builds
install_cmd(package_name, version, upgrade) ==
  LET base == <<PythonExe, S_m, S_pip, S_install, package_name>>
      spec == IF version # None /\ version # <<>>
                THEN IF version[1] \in {"<", ">", "="}
                       THEN <<"\"">> \o package_name \o version \o <<"\"">>
                       ELSE <<"\"">> \o package_name \o <<"=","=">> \o version
                              \o <<"\"">>
                ELSE package_name
      cmd == [base EXCEPT ![5] = spec]
  IN  IF upgrade THEN Append(cmd, S_upgrade) ELSE cmd

\* subprocess.check_call(install_cmd) raises CalledProcessError on a non-zero
\* exit code, which is caught and turned into False.
install_result(cmd, run) ==
  [cmd |-> cmd, exit |-> run.exit, env |-> run.env,
   res |-> IF run.exit = 0 THEN Returned(TRUE) ELSE Returned(FALSE)]

install_run(env, cmd) ==
  install_result(cmd, RunPip(env, cmd))

\* install_package
install_package(env, package_name, version, upgrade) ==
  install_run(env, install_cmd(package_name, version, upgrade))

remove_result(cmd, run) ==
  [cmd |-> cmd, exit |-> run.exit, env |-> run.env,
   res |-> IF run.exit = 0 THEN Returned(None)
           ELSE Raised("ValueError", "Failed to remove package.")]

remove_run(env, cmd) ==
  remove_result(cmd, RunPip(env, cmd))

\* uninstall: removes the package via the package manager and fails on a
\* non-zero exit code.
remove_package(env, package_name) ==
  remove_run(env, <<PythonExe, S_m, S_pip, S_uninstall, S_y, package_name>>)

\* How python -m pip list --format=json can end
ListOutcomes ==
  {"ok", "exit_nonzero", "bad_json"}

\* all_packages: the parsed list, in pip's order
all_packages(env, outcome) ==
  CASE outcome = "exit_nonzero" ->
         Raised("ValueError", "Failed to list packages.")
    [] outcome = "bad_json" ->
         Raised("ValueError", "Failed to parse pip output.")
    [] outcome = "ok" -> Returned(env)

\* The loop of get_local_package from entry i on
RECURSIVE scan_case_sensitive(_, _, _)
scan_case_sensitive(pkgs, package_name, i) ==
  IF i > Len(pkgs) THEN NoneEntry
  ELSE IF pkgs[i].name = package_name THEN pkgs[i]
  ELSE scan_case_sensitive(pkgs, package_name, i + 1)

RECURSIVE scan(_, _, _)
scan(pkgs, package_name, i) ==
  IF i > Len(pkgs) THEN NoneEntry
  ELSE IF lower(pkgs[i].name) = lower(package_name) THEN pkgs[i]
  ELSE scan(pkgs, package_name, i + 1)

\* get_local_package; ap is what its call of all_packages gave
get_local_package(ap, package_name) ==
  IF ap.raised # "" THEN ap
  ELSE Returned(scan(ap.ret, package_name, 1))

\* get_package_version, from the entry found
version_of(listentry) ==
  IF listentry.raised # "" THEN listentry
  ELSE IF listentry.ret # NoneEntry THEN Returned(listentry.ret.version)
  ELSE Returned(None)

\* get_package_version
get_package_version(ap, package_name) ==
  version_of(get_local_package(ap, package_name))

\* package_is_installed, from the version found: version is not None
is_not_none_inverted(version) ==
  IF version.raised # "" THEN version
  ELSE Returned(version.ret = None)

is_not_none(version) ==
  IF version.raised # "" THEN version
  ELSE Returned(version.ret # None)

\* package_is_installed
package_is_installed(ap, package_name) ==
  is_not_none(get_package_version(ap, package_name))

----------------------------------------------------------------------------
(* The package index: get_package_info and the update check                 *)

\* What the index can answer to GET https://pypi.org/pypi/<name>/json
RemoteVersions ==
  {<<"1">>, <<"2">>, <<"3">>}

\* A decoded JSON body: null, or an object that may have "info", which may
\* have "version", which may be null.
Bodies ==
  {[isNone |-> TRUE, has_info |-> FALSE, has_version |-> FALSE, version |-> None],
   [isNone |-> FALSE, has_info |-> FALSE, has_version |-> FALSE, version |-> None],
   [isNone |-> FALSE, has_info |-> TRUE, has_version |-> FALSE, version |-> None],
   [isNone |-> FALSE, has_info |-> TRUE, has_version |-> TRUE, version |-> None]}
  \cup {[isNone |-> FALSE, has_info |-> TRUE, has_version |-> TRUE, version |-> v] :
          v \in RemoteVersions}

NoneBody ==
  [isNone |-> TRUE, has_info |-> FALSE, has_version |-> FALSE, version |-> None]

\* How the lookup can go: requests.get fails, the status is not 2xx, the
\* body is not JSON, or a body is decoded.
Remotes ==
  {[kind |-> k, body |-> NoneBody] :
     k \in {"network_failure", "http_error", "malformed_json"}}
  \cup {[kind |-> "ok", body |-> b] : b \in Bodies}

\* The exception each failure raises inside the try block:
\* requests.get -> ConnectionError, raise_for_status -> HTTPError,
\* response.json -> requests.exceptions.JSONDecodeError
ExceptionOf(kind) ==
  CASE kind = "network_failure" -> "ConnectionError"
    [] kind = "http_error" -> "HTTPError"
    [] kind = "malformed_json" -> "JSONDecodeError"
    [] kind = "ok" -> ""

\* The subclasses of requests.RequestException among them
RequestException ==
  {"ConnectionError", "HTTPError", "JSONDecodeError"}

\* get_package_info: except requests.RequestException -> GetPackageInfoError
info_or_error(exc, body) ==
  IF exc = "" THEN [raised |-> "", message |-> "", ret |-> body]
  ELSE IF exc \in RequestException
    THEN [raised |-> "GetPackageInfoError",
          message |-> "Failed to fetch package data", ret |-> NoneBody]
  ELSE [raised |-> exc, message |-> "", ret |-> NoneBody]

\* get_package_info
get_package_info(package_name, remote) ==
  info_or_error(ExceptionOf(remote.kind), remote.body)

\* get_remote_package: except GetPackageInfoError: return None
none_on_error_propagating(info) ==
  info

none_on_error(info) ==
  IF info.raised = "GetPackageInfoError"
    THEN [raised |-> "", message |-> "", ret |-> NoneBody]
    ELSE info

\* get_remote_package
get_remote_package(package_name, remote) ==
  none_on_error(get_package_info(package_name, remote))

\* latest_version != local_version
versions_differ_by_order(latest_version, local_version) ==
  VerNum(latest_version) > VerNum(local_version)

versions_differ(latest_version, local_version) ==
  latest_version # local_version

\* package_update_available once the local version is known
compare_with_remote(local_version, remote_data) ==
  IF remote_data.raised # ""
    THEN Raised(remote_data.raised, remote_data.message)
  ELSE IF remote_data.ret.isNone
    THEN Returned(<<FALSE, None, local_version>>)
  ELSE IF ~remote_data.ret.has_info
    THEN Raised("ValueError", "Invalid package data.")
  ELSE IF ~remote_data.ret.has_version
    THEN Raised("ValueError", "Invalid package data.")
  ELSE IF remote_data.ret.version = None
    THEN Raised("ValueError", "Invalid package data.")
  ELSE Returned(<<versions_differ(remote_data.ret.version, local_version),
                  remote_data.ret.version, local_version>>)

update_for(local, package_name, remote) ==
  IF local.raised # "" THEN local
  ELSE IF local.ret = None THEN Returned(<<FALSE, None, None>>)
  ELSE compare_with_remote(local.ret, get_remote_package(package_name, remote))

\* package_update_available: (update available, latest version, local
\* version); ap is what all_packages gave, remote how the lookup goes
package_update_available(ap, package_name, remote) ==
  update_for(get_package_version(ap, package_name), package_name, remote)

----------------------------------------------------------------------------
(* The filesystem, EnvManager() and the factory                             *)
(* A path is the sequence of its components; os.path.join appends.          *)

Roots ==
  {<<"r1">>, <<"r2">>}

Hosts ==
  {"Windows", "Linux", "Darwin"}

\* os.path.isfile, os.path.isdir
isfile(fs_files, path) ==
  path \in fs_files

isdir(fs_dirs, path) ==
  path \in fs_dirs

\* The path get_python_executable expects on the host
python_exe_path_posix_only(system, env_path) ==
  env_path \o <<"bin", "python">>

python_exe_path(system, env_path) ==
  IF system = "Windows"
    THEN env_path \o <<"Scripts", "python.exe">>
    ELSE env_path \o <<"bin", "python">>

\* EnvManager.get_python_executable
get_python_executable(system, fs_files, env_path) ==
  LET python_exe == python_exe_path(system, env_path)
  IN  IF ~isfile(fs_files, python_exe)
        THEN Raised("FileNotFoundError", "Python executable not found")
        ELSE Returned(python_exe)

\* EnvManager.__init__: the manager is its env_path and its python_exe
NoManager ==
  [env_path |-> None, python_exe |-> None]

\* No factory call yet
NoFactoryCall ==
  [op |-> "none", root |-> None, raised |-> "", message |-> "",
   ret |-> NoManager, created |-> FALSE, files_before |-> {},
   dirs_before |-> {}]

manager_of(env_path, exe) ==
  IF exe.raised # ""
    THEN [raised |-> exe.raised, message |-> exe.message, ret |-> NoManager]
    ELSE [raised |-> "", message |-> "",
          ret |-> [env_path |-> env_path, python_exe |-> exe.ret]]

\* What is remembered of the factory call before the last one
FactorySummary(call) ==
  [op |-> call.op, root |-> call.root, raised |-> call.raised,
   ret |-> call.ret]

EnvManager(system, fs_files, env_path) ==
  manager_of(env_path, get_python_executable(system, fs_files, env_path))

\* How venv.EnvBuilder(with_pip=True).create can end
BuildOutcomes ==
  {"ok", "fail"}

\* venv.EnvBuilder(with_pip=True).create(env_path): the directories and the
\* interpreter of the environment.  It cannot build where a regular file
\* is, nor put the interpreter where a directory is; when installing pip
\* fails the interpreter is already in place.
EnvBuilder_create(system, fs_files, fs_dirs, env_path, outcome) ==
  LET bindir == IF system = "Windows" THEN env_path \o <<"Scripts">>
                ELSE env_path \o <<"bin">>
  IN  IF isfile(fs_files, env_path)
        THEN [raised |-> "ValueError", files |-> fs_files, dirs |-> fs_dirs]
      ELSE IF isdir(fs_dirs, python_exe_path(system, env_path))
        THEN [raised |-> "OSError", files |-> fs_files,
              dirs |-> fs_dirs \cup {env_path, bindir}]
      ELSE [raised |-> IF outcome = "ok" THEN "" ELSE "CalledProcessError",
            files |-> fs_files \cup {python_exe_path(system, env_path)},
            dirs |-> fs_dirs \cup {env_path, bindir}]

\* create_virtual_env, after the builder: return EnvManager(env_path)
wrap_built(system, built, env_path) ==
  IF built.raised # ""
    THEN [raised |-> built.raised, message |-> "", ret |-> NoManager,
          files |-> built.files, dirs |-> built.dirs, created |-> TRUE]
    ELSE [raised |-> EnvManager(system, built.files, env_path).raised,
          message |-> EnvManager(system, built.files, env_path).message,
          ret |-> EnvManager(system, built.files, env_path).ret,
          files |-> built.files, dirs |-> built.dirs, created |-> TRUE]

\* create_virtual_env
create_virtual_env(system, fs_files, fs_dirs, env_path, outcome) ==
  wrap_built(system,
             EnvBuilder_create(system, fs_files, fs_dirs, env_path, outcome),
             env_path)

\* get_or_create_virtual_env, the existing directory: try EnvManager(env_path)
wrap_existing(fs_files, fs_dirs, mgr) ==
  IF mgr.raised = "FileNotFoundError"
    THEN [raised |-> "ValueError",
          message |-> "does not contain a valid virtual environment",
          ret |-> NoManager,
          files |-> fs_files, dirs |-> fs_dirs, created |-> FALSE]
    ELSE [raised |-> mgr.raised, message |-> mgr.message, ret |-> mgr.ret,
          files |-> fs_files, dirs |-> fs_dirs, created |-> FALSE]

\* get_or_create_virtual_env
get_or_create_falling_back(system, fs_files, fs_dirs, env_path, outcome) ==
  IF \/ ~isdir(fs_dirs, env_path)
     \/ EnvManager(system, fs_files, env_path).raised = "FileNotFoundError"
    THEN create_virtual_env(system, fs_files, fs_dirs, env_path, outcome)
    ELSE wrap_existing(fs_files, fs_dirs,
                       EnvManager(system, fs_files, env_path))

get_or_create_virtual_env(system, fs_files, fs_dirs, env_path, outcome) ==
  IF ~isdir(fs_dirs, env_path)
    THEN create_virtual_env(system, fs_files, fs_dirs, env_path, outcome)
    ELSE wrap_existing(fs_files, fs_dirs,
                       EnvManager(system, fs_files, env_path))

----------------------------------------------------------------------------
(* The calls on one EnvManager, each recorded with its result               *)

PackageNames ==
  {<<"d","u">>, <<"D","U">>, <<"n","o">>}

\* The version argument of install_package: None, "", a version, a specifier
VersionArgs ==
  {None, <<>>, <<"1">>, <<">","=","2">>, <<"=","=","1">>}

\* The environments pip can have produced: each project absent or present
\* in one of its versions, listed in pip's order.
PipEnvs ==
  {WithVersion(WithVersion(<<>>, 1, v1), 2, v2) :
     v1 \in Projects[1].versions \cup {None},
     v2 \in Projects[2].versions \cup {None}}

NoCall ==
  [op |-> "none", name |-> None, version |-> None, upgrade |-> FALSE,
   list |-> "", remote |-> "", cmd |-> <<>>, exit |-> 0, changed |-> FALSE,
   raised |-> "", message |-> "", ret |-> None]

\* What is remembered of the call before the last one
Summary(call) ==
  [op |-> call.op, name |-> call.name, version |-> call.version,
   raised |-> call.raised, exit |-> call.exit, changed |-> call.changed]

OtherIdle ==
  /\ host = "Linux"
  /\ files = {}
  /\ dirs = {}
  /\ flast = NoFactoryCall
  /\ fprev = FactorySummary(NoFactoryCall)

EnvIdle ==
  /\ installed = <<>>
  /\ last = NoCall
  /\ prev = Summary(NoCall)

EnvInit ==
  /\ installed \in PipEnvs
  /\ last = NoCall
  /\ prev = Summary(NoCall)
  /\ RunnerIdle
  /\ OtherIdle

\* A call that may change the environment
Change(op, package_name, version, upgrade, r) ==
  /\ installed' = r.env
  /\ last' = [NoCall EXCEPT !.op = op, !.name = package_name,
                !.version = version, !.upgrade = upgrade, !.cmd = r.cmd,
                !.exit = r.exit, !.changed = r.env # installed,
                !.raised = r.res.raised, !.message = r.res.message,
                !.ret = r.res.ret]
  /\ prev' = Summary(last)
  /\ UNCHANGED <<rvars, fvars>>

InstallPackage(package_name, version, upgrade) ==
  Change("install_package", package_name, version, upgrade,
         install_package(installed, package_name, version, upgrade))

RemovePackage(package_name) ==
  Change("remove_package", package_name, None, FALSE,
         remove_package(installed, package_name))

\* A call that only reads the environment
Query(op, package_name, outcome, remote, res) ==
  /\ last' = [NoCall EXCEPT !.op = op, !.name = package_name,
                !.list = outcome, !.remote = remote,
                !.exit = IF outcome = "exit_nonzero" THEN 1 ELSE 0,
                !.raised = res.raised, !.message = res.message,
                !.ret = res.ret]
  /\ prev' = Summary(last)
  /\ UNCHANGED <<installed, rvars, fvars>>

AllPackages(outcome) ==
  Query("all_packages", None, outcome, "", all_packages(installed, outcome))

GetLocalPackage(package_name, outcome) ==
  Query("get_local_package", package_name, outcome, "",
        get_local_package(all_packages(installed, outcome), package_name))

GetPackageVersion(package_name, outcome) ==
  Query("get_package_version", package_name, outcome, "",
        get_package_version(all_packages(installed, outcome), package_name))

PackageIsInstalled(package_name, outcome) ==
  Query("package_is_installed", package_name, outcome, "",
        package_is_installed(all_packages(installed, outcome), package_name))

\* The index is asked only when the package list was read and holds the
\* package.
NotAsked ==
  [kind |-> "", body |-> NoneBody]

PackageUpdateAvailable(package_name, outcome, remote) ==
  /\ remote = NotAsked <=>
       get_package_version(all_packages(installed, outcome),
                           package_name).ret = None
  /\ Query("package_update_available", package_name, outcome, remote.kind,
        package_update_available(all_packages(installed, outcome),
                                 package_name, remote))

EnvNext ==
  \/ \E n \in PackageNames, v \in VersionArgs, u \in BOOLEAN :
       InstallPackage(n, v, u)
  \/ \E n \in PackageNames : RemovePackage(n)
  \/ \E o \in ListOutcomes : AllPackages(o)
  \/ \E n \in PackageNames, o \in ListOutcomes : GetLocalPackage(n, o)
  \/ \E n \in PackageNames, o \in ListOutcomes : GetPackageVersion(n, o)
  \/ \E n \in PackageNames, o \in ListOutcomes : PackageIsInstalled(n, o)

\* The calls that manage the packages of one environment, in any order
Spec ==
  EnvInit /\ [][EnvNext]_vars

\* Update checks on an environment, whatever the index answers
UpdateNext ==
  \E n \in PackageNames, o \in ListOutcomes, r \in Remotes \cup {NotAsked} :
    PackageUpdateAvailable(n, o, r)

SpecUpdate ==
  EnvInit /\ [][UpdateNext]_vars

----------------------------------------------------------------------------
(* The lookups over any package list                                        *)

MaxList == 2

ScanNames ==
  {<<"d","u">>, <<"D","u">>, <<"a","b">>}

ScanVersions ==
  {<<"1">>, <<"2">>}

ScanLists ==
  SeqsUpTo([name : ScanNames, version : ScanVersions], MaxList)

ScanInit ==
  /\ installed \in ScanLists
  /\ last = NoCall
  /\ prev = Summary(NoCall)
  /\ RunnerIdle
  /\ OtherIdle

ScanNext ==
  \/ \E n \in PackageNames \cup ScanNames : GetLocalPackage(n, "ok")
  \/ \E n \in PackageNames \cup ScanNames : GetPackageVersion(n, "ok")
  \/ \E n \in PackageNames \cup ScanNames : PackageIsInstalled(n, "ok")

SpecScan ==
  ScanInit /\ [][ScanNext]_vars

----------------------------------------------------------------------------
(* One call of run_subprocess_with_streams                                  *)

RunInit ==
  /\ RunnerInit
  /\ EnvIdle
  /\ OtherIdle

ChildStep ==
  ChildWrite \/ ChildClose \/ ChildExit

ReaderStep(s) ==
  ReadLine(s) \/ Callback(s) \/ ReadEOF(s)

MainStep ==
  Popen \/ StartStdout \/ StartStderr \/ JoinStdout \/ JoinStderr \/ Wait
    \/ Check

SpecRun ==
  RunInit /\ [][RunnerNext]_vars

\* The operating system schedules the child, each reader thread and the
\* calling thread whenever they can run.
FairSpecRun ==
  /\ SpecRun
  /\ WF_vars(ChildStep)
  /\ \A s \in Streams : WF_vars(ReaderStep(s))
  /\ WF_vars(MainStep)

----------------------------------------------------------------------------
(* The factory calls on a filesystem                                        *)

\* What can be at a root: nothing, a regular file, or a directory holding
\* any of: bin/python as a file, bin/python as a directory, Scripts/python.exe
RootStates(r) ==
  {[files |-> {}, dirs |-> {}],
   [files |-> {r}, dirs |-> {}],
   [files |-> {}, dirs |-> {r}],
   [files |-> {r \o <<"bin","python">>}, dirs |-> {r, r \o <<"bin">>}],
   [files |-> {}, dirs |-> {r, r \o <<"bin">>, r \o <<"bin","python">>}],
   [files |-> {r \o <<"Scripts","python.exe">>},
    dirs |-> {r, r \o <<"Scripts">>}]}

FactoryInit ==
  /\ host \in Hosts
  /\ \E f \in [Roots -> UNION {RootStates(r) : r \in Roots}] :
       /\ \A r \in Roots : f[r] \in RootStates(r)
       /\ files = UNION {f[r].files : r \in Roots}
       /\ dirs = UNION {f[r].dirs : r \in Roots}
  /\ flast = NoFactoryCall
  /\ fprev = FactorySummary(NoFactoryCall)
  /\ RunnerIdle
  /\ EnvIdle

FactoryCall(op, root, r) ==
  /\ files' = r.files
  /\ dirs' = r.dirs
  /\ flast' = [op |-> op, root |-> root, raised |-> r.raised,
               message |-> r.message, ret |-> r.ret, created |-> r.created,
               files_before |-> files, dirs_before |-> dirs]
  /\ fprev' = FactorySummary(flast)
  /\ UNCHANGED <<host, rvars, evars>>

\* EnvManager(env_path)
construct(fs_files, fs_dirs, m) ==
  [raised |-> m.raised, message |-> m.message, ret |-> m.ret,
   files |-> fs_files, dirs |-> fs_dirs, created |-> FALSE]

NewEnvManager(root) ==
  FactoryCall("EnvManager", root,
              construct(files, dirs, EnvManager(host, files, root)))

CreateVirtualEnv(root, outcome) ==
  FactoryCall("create_virtual_env", root,
              create_virtual_env(host, files, dirs, root, outcome))

GetOrCreateVirtualEnv(root, outcome) ==
  FactoryCall("get_or_create_virtual_env", root,
              get_or_create_virtual_env(host, files, dirs, root, outcome))

FactoryNext ==
  \/ \E r \in Roots : NewEnvManager(r)
  \/ \E r \in Roots, o \in BuildOutcomes : CreateVirtualEnv(r, o)
  \/ \E r \in Roots, o \in BuildOutcomes : GetOrCreateVirtualEnv(r, o)

SpecFactory ==
  FactoryInit /\ [][FactoryNext]_vars

----------------------------------------------------------------------------
(* Properties of run_subprocess_with_streams                                *)

RunOver ==
  mpc \in {"returned", "raised"}

\* C2: when the child exits with a non-zero code the run ends in an error
\* that carries argv and the exit code, and when the error is raised every
\* line the child wrote to a stream has been passed to that stream's
\* callback, in the order written.
C2_ErrorAfterAllLines ==
  /\ (RunOver /\ exitcode # 0) => mpc = "raised"
  /\ mpc = "raised" =>
       /\ exitcode # 0
       /\ error.raised
       /\ error.message = args
       /\ error.cause_cmd = args
       /\ error.cause_returncode = exitcode
       /\ \A s \in Streams : callback[s] => sink[s] = emitted[s]

C2_Witness ==
  /\ mpc = "raised"
  /\ exitcode = 2
  /\ \A s \in Streams : callback[s] /\ sink[s] # <<>>

\* C3: with bounded pipes and a child that exits in the end, under fair
\* scheduling the run always comes to its end (no deadlock, whichever pipe
\* the child fills and whether or not callbacks are given), and it is over
\* only when both streams have been read to end-of-file and the child has
\* exited.
C3_DrainsAndReturns ==
  /\ <>RunOver
  /\ [](RunOver => /\ child = "exited"
                   /\ \A s \in Streams : rpc[s] = "done" /\ pipe[s] = <<>>)

C3_Witness ==
  /\ RunOver
  /\ emitted["stdout"] = <<>>
  /\ Len(emitted["stderr"]) > PipeCap
  /\ ~callback["stderr"]

----------------------------------------------------------------------------
(* Properties of the EnvManager calls                                       *)

\* C1: an install whose package manager process exits with a non-zero code
\* raises an error; it does not return a value.
C1_InstallFailureRaises ==
  (last.op = "install_package" /\ last.exit # 0) => last.raised # ""

\* The package argument as the claim C4 has it
ClaimedPackageArg(package_name, version) ==
  IF version = None \/ version = <<>> THEN package_name
  ELSE IF version[1] \in {"<", ">", "="} THEN package_name \o version
  ELSE package_name \o <<"=","=">> \o version

\* C4: the package argument passed to the package manager is the name, the
\* name followed by the constraint, or name==constraint, with nothing added
\* around it, and the upgrade flag is appended iff upgrade is true.
C4_PackageArgument ==
  last.op = "install_package" =>
    /\ SubSeq(last.cmd, 1, 4) = <<PythonExe, S_m, S_pip, S_install>>
    /\ last.cmd[5] = ClaimedPackageArg(last.name, last.version)
    /\ IF last.upgrade THEN Len(last.cmd) = 6 /\ last.cmd[6] = S_upgrade
       ELSE Len(last.cmd) = 5

\* C5: in every result of the update check, update_available is true iff
\* the local and the latest version are both known and are not equal.
C5_UpdateIffKnownAndDiffer ==
  (last.op = "package_update_available" /\ last.raised = "") =>
    (last.ret[1] <=> /\ last.ret[2] # None
                     /\ last.ret[3] # None
                     /\ last.ret[2] # last.ret[3])

\* A local version ahead of the index's is reported as an update.
C5_Witness ==
  /\ last.op = "package_update_available"
  /\ last.raised = ""
  /\ last.ret[1]
  /\ VerNum(last.ret[3]) > VerNum(last.ret[2])

\* The version the environment holds of the package called name (the
\* environment holds a package once, whatever the case of its name)
LocalVersionOf(name) ==
  LET e == CHOOSE e \in Range(installed) : lower(e.name) = lower(name)
  IN  e.version

LookupFailures ==
  {"network_failure", "http_error", "malformed_json"}

C7_UninstalledIsNotInstalled ==
  (/\ prev.op = "remove_package"
   /\ prev.raised = ""
   /\ last.op = "package_is_installed"
   /\ last.name = prev.name
   /\ last.raised = "") =>
    last.ret = FALSE

\* The package was there (under a name of another case) and was removed.
C7_Witness ==
  /\ prev.op = "remove_package"
  /\ prev.raised = ""
  /\ prev.changed
  /\ prev.name = <<"D","U">>
  /\ last.op = "package_is_installed"
  /\ last.name = prev.name
  /\ last.ret = FALSE

\* C8: get_version(name) right after install(name, version=V), V an exact
\* version the index offers and the install not having failed, returns V.
C8_InstalledVersionIsPinned ==
  (/\ prev.op = "install_package"
   /\ prev.raised = ""
   /\ prev.version \in Projects[2].versions
   /\ lower(prev.name) = lower(Projects[2].name)
   /\ last.op = "get_package_version"
   /\ last.name = prev.name
   /\ last.raised = "") =>
    last.ret = prev.version

----------------------------------------------------------------------------
(* Properties of the lookups                                                *)

\* Two characters that are the same letter, whatever their case
SameLetter(a, b) ==
  \/ a = b
  \/ \E i \in 1..26 : {a, b} = {UpperCase[i], LowerCase[i]}

EqualIgnoringCase(x, y) ==
  /\ Len(x) = Len(y)
  /\ \A k \in 1..Len(x) : SameLetter(x[k], y[k])

\* The first entry of pkgs whose name is name ignoring case, or NoneEntry
FirstMatch(pkgs, name) ==
  LET hits == {i \in 1..Len(pkgs) : EqualIgnoringCase(pkgs[i].name, name)}
  IN  IF hits = {} THEN NoneEntry
      ELSE pkgs[CHOOSE i \in hits : \A j \in hits : i <= j]

\* C10: find_package gives the first entry, in list order, whose name is
\* the queried one ignoring case, or nothing; get_version is that entry's
\* version or nothing; is_installed is true iff get_version gives a version.
C10_FirstMatchIgnoringCase ==
  LET hit == FirstMatch(installed, last.name) IN
  /\ last.op = "get_local_package" => last.ret = hit
  /\ last.op = "get_package_version" =>
       last.ret = IF hit = NoneEntry THEN None ELSE hit.version
  /\ last.op = "package_is_installed" => (last.ret <=> hit # NoneEntry)

\* Two entries match a name written in another case; the first is found.
C10_Witness ==
  /\ last.op = "get_local_package"
  /\ Len(installed) = 2
  /\ installed[1].name # last.name
  /\ installed[1].name # installed[2].name
  /\ installed[1].version # installed[2].version
  /\ EqualIgnoringCase(installed[2].name, last.name)
  /\ last.ret = installed[1]

----------------------------------------------------------------------------
(* Properties of the factory                                                *)

\* C9: get_or_create on an existing directory never bootstraps; it returns
\* a manager for the root when the interpreter is there, and otherwise fails
\* with ValueError and leaves the filesystem as it was.  On anything else it
\* goes through create, and a manager it returns has the root as env_path.
C9_GetOrCreate ==
  flast.op = "get_or_create_virtual_env" =>
    LET root == flast.root
        exe == IF host = "Windows" THEN root \o <<"Scripts", "python.exe">>
               ELSE root \o <<"bin", "python">>
    IN  IF root \in flast.dirs_before
          THEN /\ ~flast.created
               /\ files = flast.files_before
               /\ dirs = flast.dirs_before
               /\ IF exe \in flast.files_before
                    THEN /\ flast.raised = ""
                         /\ flast.ret = [env_path |-> root, python_exe |-> exe]
                    ELSE /\ flast.raised = "ValueError"
                         /\ flast.ret = NoManager
          ELSE /\ flast.created
               /\ flast.raised = "" => flast.ret.env_path = root

\* An existing directory that holds the other host's interpreter only
C9_Witness ==
  /\ flast.op = "get_or_create_virtual_env"
  /\ flast.root \in flast.dirs_before
  /\ flast.raised = "ValueError"
  /\ files # {}
  /\ files = flast.files_before

----------------------------------------------------------------------------
(* Properties of the interpreter lookup                                     *)

\* C11: the interpreter of a root is <root>/Scripts/python.exe on a Windows
\* host and <root>/bin/python on any other; it is returned when it is a
\* regular file and otherwise the lookup fails with FileNotFoundError, and
\* with it the construction of the EnvManager.  The lookup leaves the
\* filesystem as it was, and looking up the same root again gives the same.
C11_InterpreterLookup ==
  flast.op = "EnvManager" =>
    /\ files = flast.files_before
    /\ dirs = flast.dirs_before
    /\ IF host = "Windows"
         THEN IF (flast.root \o <<"Scripts", "python.exe">>) \in files
                THEN /\ flast.raised = ""
                     /\ flast.ret.env_path = flast.root
                     /\ flast.ret.python_exe =
                          flast.root \o <<"Scripts", "python.exe">>
                ELSE /\ flast.raised = "FileNotFoundError"
                     /\ flast.ret = NoManager
         ELSE IF (flast.root \o <<"bin", "python">>) \in files
                THEN /\ flast.raised = ""
                     /\ flast.ret.env_path = flast.root
                     /\ flast.ret.python_exe = flast.root \o <<"bin", "python">>
                ELSE /\ flast.raised = "FileNotFoundError"
                     /\ flast.ret = NoManager
    /\ (fprev.op = "EnvManager" /\ fprev.root = flast.root) =>
         /\ flast.raised = fprev.raised
         /\ flast.ret = fprev.ret

\* On a Windows host the interpreter of a root was found twice in a row.
C11_Witness ==
  /\ host = "Windows"
  /\ fprev.op = "EnvManager"
  /\ flast.op = "EnvManager"
  /\ fprev.root = flast.root
  /\ flast.raised = ""
  /\ flast.ret.python_exe = flast.root \o <<"Scripts", "python.exe">>
  /\ flast.ret = fprev.ret

====
